---- MODULE Spec2Model ----
(***************************************************************************)
(* The connection hub of internal/transport/websocket.go: the engine       *)
(* goroutine (WebSocketHandler.run), one reader (Client.readPump), one     *)
(* writer (Client.writePump) and one heartbeat goroutine per connection,   *)
(* the periodic roster broadcaster, and the presence store behind          *)
(* service.StatusService.                                                  *)
(*                                                                         *)
(* A goroutine is modelled by the list of steps it still has to take; a    *)
(* step runs from one blocking point of the code (a channel send or        *)
(* receive, a Lock or RLock of clientsMux) up to the next one.  The        *)
(* engine never releases clientsMux while it is blocked, so the state of   *)
(* the lock is a function of the place where the engine is (enginePc).     *)
(* h.shutdown is never closed nor sent on anywhere in the repository, so   *)
(* the shutdown case of run and of periodicStatusBroadcast cannot fire     *)
(* and has no action here.  main.go always passes a non-nil StatusService. *)
(* The stats counters MessagesSent, MessagesReceived and Errors are only   *)
(* written, never read, and are left out; ActiveConnections is `active`.   *)
(***************************************************************************)
EXTENDS Integers, Sequences, FiniteSets, TLC

\* ------------------------------------------------------------------ bounds
NumClients == 2          \* connections that handshake during a run
SendCap == 2             \* capacity of Client.send (256 in the code)
BroadcastCap == 2        \* capacity of h.broadcast (256 in the code)
MaxEvents == 2           \* frames read and ticks of the roster broadcaster during a run
MaxFaults == 1           \* transport faults (reads and writes that fail) during a run
MaxStoreFaults == 1      \* calls to the presence store that fail during a run

TokenUnit == 4           \* parts a limiter token is counted in
MaxBurst == 20           \* frames of the burst a limiter is observed under
MaxMessages == 2         \* messages sent to the message service during a run

maxConnections == 10000
messagesPerSecond == 5
limiterBurst == 1
pongWait == 60
heartbeatInterval == 5
userStatusTTL == 300

Clients == 1..NumClients
NoClient == 0
Users == {"u1", "u2"}
\* The keys the maps and the store can hold: a user id, or the empty id of a
\* connection that has not identified.
UserKeys == Users \cup {""}

VARIABLES
    clients,      \* h.clients: the registered connections
    userIDs,      \* h.userIDs: user id -> connection (NoClient: no entry)
    knownUsers,   \* h.knownUsers
    active,       \* h.stats.ActiveConnections
    broadcast,    \* h.broadcast: the engine's queue of frames
    enginePc,     \* where run() is: "idle" at its select, or blocked
    userID,       \* c.userID
    send,         \* c.send: the outbound queue
    sendClosed,   \* close(c.send) was executed
    closed,       \* c.closed
    connCloses,   \* calls of c.conn.Close()
    cancels,      \* calls of c.cancel()
    rstate,       \* the handshake and the reader: "none", "admitted", "run", "done"
    rq,           \* the steps the reader still has to take for the current frame
    wstate,       \* the writer: "none", "run", "done"
    hb,           \* the heartbeat goroutines of c: "none", "run", "due" (at a tick), "done"
    tq,           \* the steps the roster broadcaster still has to take
    store,        \* the presence store: key -> the value ("none": no key) and its expiry
    accepted,     \* frames accepted into h.broadcast so far
    events,       \* frames read and roster ticks so far
    faults,       \* transport faults so far
    storeFaults,  \* failed calls to the presence store so far
    panicked,     \* a goroutine panicked (send on, or close of, a closed channel)
    offlineSeen,  \* offlineSeen[c]: the offline events of teardowns enqueued on c.send
    left,         \* left[c]: c sent user_leave after it last identified
    peersAtClose, \* peersAtClose[c]: the identified peers registered when the reader of c ended
    others,       \* registered connections that take no step in the run
    tokens,       \* c.limiter: the tokens in the bucket, in units of 1/TokenUnit
    elapsed,      \* time since the burst under observation began, in limiter ticks
    received,     \* frames of the burst read so far
    passed,       \* frames of the burst that went past the limiter
    seen,         \* the frames dispatched so far: connection, frame, tick of arrival
    lastWrite,    \* lastWrite[u]: the latest write of u's presence record and its tick
    got,          \* the latest GetUserStatus: user, tick, status and error returned
    chats,        \* the chats of the repository: chats[ch] is the creator ("": no such chat)
    chatUsers,    \* chatUsers[ch]: the members of ch
    chatResult,   \* the latest call of the chat service and whether it succeeded
    messages,     \* the message repository: the id, chat and sender of each message it holds
    saved,        \* messages saved so far (the ids handed out)
    messageKeys,  \* the ids that have a "message:<id>" key in the cache
    chatMessages, \* chatMessages[ch]: the "chat:<ch>:messages" key of the cache
    history,      \* the latest GetChatHistory: chat, limit and the ids returned, newest first
    now           \* time since the start of the run, in ticks

vars == <<clients, userIDs, knownUsers, active, broadcast, enginePc, userID, send,
          sendClosed, closed, connCloses, cancels, rstate, rq, wstate,
          hb, tq, store, accepted, events, faults, storeFaults, panicked, offlineSeen, left, peersAtClose,
          others, tokens, elapsed, received, passed, seen, lastWrite, got,
          chats, chatUsers, chatResult, messages, saved, messageKeys, chatMessages,
          history, now>>

\* The state of the limiter under observation and of the clock.
limiterVars == <<tokens, elapsed, received, passed>>
\* The record of the calls made on the presence adapter from outside the hub.
statusVars == <<lastWrite, got>>
\* The chats and the record of the calls made on the chat service.
chatVars == <<chats, chatUsers, chatResult>>
\* The messages, the message cache and the record of the calls of GetChatHistory.
messageVars == <<messages, saved, messageKeys, chatMessages, history>>
auxVars == <<others, limiterVars, now, seen, statusVars, chatVars, messageVars>>

\* ------------------------------------------------------------------ frames
NoStatuses == [k \in UserKeys |-> "none"]

\* WebSocketMessage.  An empty field is a field json omits (omitempty); `extra`
\* stands for any member of the JSON object that the struct has no field for.
WebSocketMessage(type, uid, text, sender, status) ==
    [type |-> type, userId |-> uid, text |-> text, sender |-> sender,
     status |-> status, users |-> {}, statuses |-> NoStatuses, extra |-> ""]

\* A frame as the client wrote it: a JSON object, or a payload that is not JSON
\* (its bytes are in text).
Wire(json, type, uid, text, sender, extra) ==
    [json |-> json, type |-> type, userId |-> uid, text |-> text,
     sender |-> sender, status |-> "", extra |-> extra]

NoWire == Wire(FALSE, "", "", "", "", "")

\* json.Unmarshal into WebSocketMessage: members without a field are dropped.
Unmarshal(w) == WebSocketMessage(w.type, w.userId, w.text, w.sender, w.status)

\* The frames a client sends in a run.
InFrames ==
    { Wire(TRUE, "user_join", u, "", "", "") : u \in Users } \cup
    { Wire(TRUE, "user_leave", "", "", "", ""),
      Wire(TRUE, "message", "", "hi", "", ""),
      Wire(TRUE, "profile_update", "", "", "u2", ""),
      Wire(TRUE, "status_request", "", "", "", ""),
      Wire(TRUE, "heartbeat", "", "", "", ""),
      Wire(TRUE, "typing", "", "", "", "x"),
      Wire(FALSE, "", "", "raw", "", "") }

\* An entry of a channel: the frame, and (for the properties) the order in which
\* h.broadcast accepted it, the connection whose reader sent it, the user id that
\* connection was bound to, and the frame as the client wrote it.
Entry(msg, seq, from, uid, wire) ==
    [msg |-> msg, seq |-> seq, from |-> from, uid |-> uid, wire |-> wire]

\* A step of a goroutine that is still to be taken.
Op(op, msg, from, uid, wire) ==
    [op |-> op, msg |-> msg, from |-> from, uid |-> uid, wire |-> wire]

NoMsg == WebSocketMessage("", "", "", "", "")
PlainOp(op) == Op(op, NoMsg, NoClient, "", NoWire)

\* ------------------------------------------------------------------ the lock
\* clientsMux.  run() holds the write lock while it is blocked inside the
\* unregister case and the read lock while it is blocked inside the broadcast
\* case; every other critical section runs to its end without blocking.
CanLock == enginePc = "idle"
CanRLock == enginePc \notin {"unreg_send", "unreg_rlock"}

\* ------------------------------------------------------------------ presence store
\* StatusService.SetUserOnline / SetUserOffline: SET key value EX ttl; ok is
\* whether the call to the store succeeded.  A key lives userStatusTTL from the
\* call that wrote it.  Time is counted in ticks of pongWait, the longest time
\* of which the read deadline and the TTL are both multiples.
TimeUnit == pongWait
TTLTicks == userStatusTTL \div TimeUnit
PongTicks == pongWait \div TimeUnit

\* A heartbeat ticker fires at the end of every tick.
HeartbeatAtTick == TimeUnit % heartbeatInterval = 0

\* The ids a chat can get, and the state before any call of the chat service.
Chats == {"c1", "c2"}
NoCall == [op |-> "", chat |-> "", user |-> "", ok |-> FALSE]

\* The ids uuid.New() hands out, in the order of the calls; a cache without the
\* history key of a chat; and the state before any call of GetChatHistory.
MessageIDs == 1..MaxMessages
NoEntry == [present |-> FALSE, msgs |-> <<>>]
NoHistory == [chat |-> "", limit |-> 0, msgs |-> <<>>, cached |-> FALSE]

\* No write of any record and no GetUserStatus so far.
NoWrites == [k \in UserKeys |-> [op |-> "none", at |-> 0]]
NoStatus == [u |-> "", at |-> 0, failed |-> FALSE, status |-> "", err |-> FALSE]

NoRecord == [v |-> "none", exp |-> 0]
Record(v) == [v |-> v, exp |-> now + TTLTicks]

SetUserOnline(st, u, ok) == IF ok THEN [st EXCEPT ![u] = Record("online")] ELSE st
SetUserOffline(st, u, ok) == IF ok THEN [st EXCEPT ![u] = Record("offline")] ELSE st

\* StatusService.GetAllUserStatuses: the keys that have not expired, with their
\* values.
GetAllUserStatuses(st) == [k \in UserKeys |-> IF st[k].exp > now THEN st[k].v ELSE "none"]

\* The calls to the store that a step makes and that fail: made[i] is whether
\* the step makes call i, ok[i] whether it succeeds.
Failed(made, ok) == Cardinality({i \in DOMAIN made : made[i] /\ ~ok[i]})

StoreCalls(made, ok) ==
    /\ \A i \in DOMAIN made : ~made[i] => ok[i]
    /\ storeFaults + Failed(made, ok) <= MaxStoreFaults
    /\ storeFaults' = storeFaults + Failed(made, ok)

\* ------------------------------------------------------------------ initial state
\* NewWebSocketHandler: empty maps and channels, run() at its select; no
\* connection has been accepted yet.
Init ==
    /\ clients = {}
    /\ userIDs = [k \in UserKeys |-> NoClient]
    /\ knownUsers = {}
    /\ active = 0
    /\ broadcast = <<>>
    /\ enginePc = "idle"
    /\ userID = [c \in Clients |-> ""]
    /\ send = [c \in Clients |-> <<>>]
    /\ sendClosed = [c \in Clients |-> FALSE]
    /\ closed = [c \in Clients |-> FALSE]
    /\ connCloses = [c \in Clients |-> 0]
    /\ cancels = [c \in Clients |-> 0]
    /\ rstate = [c \in Clients |-> "none"]
    /\ rq = [c \in Clients |-> <<>>]
    /\ wstate = [c \in Clients |-> "none"]
    /\ hb = [c \in Clients |-> "none"]
    /\ tq = <<>>
    /\ store = [k \in UserKeys |-> NoRecord]
    /\ accepted = 0
    /\ events = 0
    /\ faults = 0
    /\ storeFaults = 0
    /\ panicked = FALSE
    /\ offlineSeen = [c \in Clients |-> {}]
    /\ left = [c \in Clients |-> FALSE]
    /\ peersAtClose = [c \in Clients |-> {}]
    /\ others = 0
    /\ tokens = 0
    /\ elapsed = 0
    /\ received = 0
    /\ passed = 0
    /\ seen = {}
    /\ lastWrite = NoWrites
    /\ got = NoStatus
    /\ chats = [ch \in Chats |-> ""]
    /\ chatUsers = [ch \in Chats |-> {}]
    /\ chatResult = NoCall
    /\ messages = {}
    /\ saved = 0
    /\ messageKeys = {}
    /\ chatMessages = [ch \in Chats |-> NoEntry]
    /\ history = NoHistory
    /\ now = 0

\* The hub at rest some time after construction: the connections of R are
\* registered, ids[c] is the user id c identified with ("": none), bg further
\* connections are registered and stay idle, every frame sent so far was written
\* to its recipients, and the presence store answered every call.  (What the
\* run that starts here may contain, the budgets of inputVars, is not part of
\* it.)
Settled(R, ids, bg) ==
    /\ clients = R
    /\ userID = ids
    /\ userIDs = [k \in UserKeys |->
                    IF k # "" /\ \E c \in R : ids[c] = k
                    THEN CHOOSE c \in R : ids[c] = k
                    ELSE NoClient]
    /\ knownUsers = {ids[c] : c \in R} \ {""}
    /\ active = Cardinality(R) + bg
    /\ others = bg
    /\ broadcast = <<>>
    /\ enginePc = "idle"
    /\ send = [c \in Clients |-> <<>>]
    /\ sendClosed = [c \in Clients |-> FALSE]
    /\ closed = [c \in Clients |-> FALSE]
    /\ connCloses = [c \in Clients |-> 0]
    /\ cancels = [c \in Clients |-> 0]
    /\ rstate = [c \in Clients |-> IF c \in R THEN "run" ELSE "none"]
    /\ rq = [c \in Clients |-> <<>>]
    /\ wstate = [c \in Clients |-> IF c \in R THEN "run" ELSE "none"]
    /\ hb = [c \in Clients |-> IF c \in R /\ ids[c] # "" THEN "run" ELSE "none"]
    /\ tq = <<>>
    /\ store = [k \in UserKeys |->
                  IF k # "" /\ \E c \in R : ids[c] = k
                  THEN [v |-> "online", exp |-> TTLTicks]
                  ELSE NoRecord]
    /\ accepted = 0
    /\ panicked = FALSE
    /\ offlineSeen = [c \in Clients |-> {}]
    /\ left = [c \in Clients |-> FALSE]
    /\ peersAtClose = [c \in Clients |-> {}]

closeVars == <<closed, connCloses, cancels>>
registryVars == <<clients, userIDs, knownUsers>>
inputVars == <<events, faults, storeFaults>>

\* ------------------------------------------------------------------ Client.close
\* The variant without the closed flag: every call closes the transport.
ClientCloseUnguarded(c) ==
    /\ closed' = [closed EXCEPT ![c] = TRUE]
    /\ cancels' = [cancels EXCEPT ![c] = @ + 1]
    /\ connCloses' = [connCloses EXCEPT ![c] = @ + 1]

\* Client.close: under closeMux, cancel the context and close the transport
\* unless c.closed is already set.
ClientClose(c) ==
    /\ closed' = [closed EXCEPT ![c] = TRUE]
    /\ cancels' = [cancels EXCEPT ![c] = IF closed[c] THEN @ ELSE @ + 1]
    /\ connCloses' = [connCloses EXCEPT ![c] = IF closed[c] THEN @ ELSE @ + 1]

\* ------------------------------------------------------------------ helpers
\* A read or a write on the transport of c fails: because the transport was
\* closed on this side, or because of the peer or the network (a fault).
Fault(c) ==
    IF closed[c]
    THEN UNCHANGED faults
    ELSE faults < MaxFaults /\ faults' = faults + 1

\* An offline event that the teardown of a connection produced: the user_leave
\* of the reader's close sequence or the status_change of the unregister case
\* (neither comes from a frame a client wrote).
IsTeardownOffline(e) ==
    /\ e.wire = NoWire
    /\ e.from # NoClient
    /\ e.msg.type \in {"user_leave", "status_change"}
    /\ e.msg.status = "offline"

\* client.send <- message for every client of S.
Enqueue(S, e) ==
    /\ send' = [c \in Clients |-> IF c \in S THEN Append(send[c], e) ELSE send[c]]
    /\ offlineSeen' =
         [c \in Clients |->
            IF c \in S /\ IsTeardownOffline(e)
            THEN offlineSeen[c] \cup {<<e.from, e.msg.type>>}
            ELSE offlineSeen[c]]

\* h.broadcast <- bytes, once the channel has room.
Accept(q, msg, from, uid, wire) == Append(q, Entry(msg, accepted + 1, from, uid, wire))

BroadcastHasRoom == Len(broadcast) < BroadcastCap

\* The variant that lists only the users a connection is bound to.
UserListConnectedOnly(st) ==
    [WebSocketMessage("user_list", "", "", "", "")
        EXCEPT !.users = {u \in knownUsers : userIDs[u] # NoClient},
               !.statuses = GetAllUserStatuses(st)]

\* The roster frame of broadcastUserList: all known users and the statuses the
\* store returned.  (The profiles member comes from the profile service, which
\* is outside the hub; it is left out.)
UserList(st) ==
    [WebSocketMessage("user_list", "", "", "", "")
        EXCEPT !.users = knownUsers, !.statuses = GetAllUserStatuses(st)]

\* The variant of the reply that copies the statuses of the store and leaves out
\* the pass over knownUsers.
UserListFromStoreOnly(st) ==
    [WebSocketMessage("user_list", "", "", "", "")
        EXCEPT !.users = knownUsers, !.statuses = st]

\* The roster frame of sendUserListWithStatus: a known user with an entry in
\* userIDs is online, a known user without a status is offline.
UserListWithStatus(st) ==
    [WebSocketMessage("user_list", "", "", "", "")
        EXCEPT !.users = knownUsers,
               !.statuses = [k \in UserKeys |->
                    IF k \in knownUsers /\ userIDs[k] # NoClient THEN "online"
                    ELSE IF k \in knownUsers /\ st[k] = "none" THEN "offline"
                    ELSE st[k]]]

\* ------------------------------------------------------------------ scheduling
\* The reader of c can take its next step now: it is not blocked on a channel
\* or on the lock.  (Its send on h.unregister is a step of run().)
ReaderRunnable(c) ==
    /\ rstate[c] = "run"
    /\ rq[c] # <<>>
    /\ LET op == Head(rq[c]).op
       IN  CASE op \in {"join", "leave"} -> CanLock
             [] op \in {"list", "reply"} -> CanRLock
             [] op = "send" -> BroadcastHasRoom
             [] op = "own" -> sendClosed[c] \/ Len(send[c]) < SendCap
             [] op = "close" -> TRUE
             [] OTHER -> FALSE

\* The writer of c has a ready case in its select other than a timer.
WriterRunnable(c) ==
    /\ wstate[c] = "run"
    /\ (send[c] # <<>> \/ sendClosed[c] \/ closed[c])

\* No reader, writer or roster broadcaster can go on without an event from
\* outside itself: a goroutine that was woken runs up to its next blocking point
\* before another event (a handshake, a frame or an error from a peer, a timer,
\* an event run() selects on) is taken.  A panic ends the process.
Quiet ==
    /\ ~panicked
    /\ \A c \in Clients : ~ReaderRunnable(c) /\ ~WriterRunnable(c)
    /\ ~(tq # <<>> /\ BroadcastHasRoom)

\* ------------------------------------------------------------------ handshake
\* HandleWebSocket up to the upgrade: the admission check on ActiveConnections.
\* A request over the cap is answered 503 and never becomes a connection.
HandleWebSocket(c) ==
    /\ Quiet
    /\ rstate[c] = "none"
    /\ rstate' = [rstate EXCEPT ![c] = IF active >= maxConnections THEN "rejected" ELSE "admitted"]
    /\ UNCHANGED <<auxVars, registryVars, active, broadcast, enginePc, userID, send, sendClosed,
                   closeVars, rq, wstate, hb, tq, store, accepted, inputVars,
                   panicked, offlineSeen, left, peersAtClose>>

\* ------------------------------------------------------------------ the engine
\* run(), case client := <-h.register, together with the rest of
\* HandleWebSocket: the handshake's send on h.register completes when run()
\* receives it, and the two pumps start.
EngineRegister(c) ==
    /\ Quiet
    /\ enginePc = "idle"
    /\ rstate[c] = "admitted"
    /\ clients' = clients \cup {c}
    /\ active' = active + 1
    /\ rstate' = [rstate EXCEPT ![c] = "run"]
    /\ wstate' = [wstate EXCEPT ![c] = "run"]
    /\ UNCHANGED <<auxVars, userIDs, knownUsers, broadcast, enginePc, userID, send, sendClosed,
                   closeVars, rq, hb, tq, store, accepted, inputVars, panicked,
                   offlineSeen, left, peersAtClose>>

\* The reader of c is blocked in `c.handler.unregister <- c`.
SendsUnregister(c) == rq[c] # <<>> /\ Head(rq[c]).op = "unreg"

\* What run() does with an identified client under the lock once it is removed:
\* SetUserOffline (ok1), then, if that succeeded, broadcastUserStatus (which
\* blocks for ever when h.broadcast is full: run() is its only receiver) and
\* broadcastUserList (GetAllUserStatuses, ok2, and then RLock on the lock
\* run() holds: it blocks for ever).
UnregisterIdentified(c, ok1, ok2) ==
    /\ userIDs' = [userIDs EXCEPT ![userID[c]] = NoClient]
    /\ store' = SetUserOffline(store, userID[c], ok1)
    /\ IF ~ok1
       THEN /\ enginePc' = "idle"
            /\ active' = active - 1
            /\ UNCHANGED <<broadcast, accepted>>
       ELSE IF ~BroadcastHasRoom
       THEN /\ enginePc' = "unreg_send"
            /\ UNCHANGED <<broadcast, accepted, active>>
       ELSE /\ broadcast' = Accept(broadcast,
                                WebSocketMessage("status_change", userID[c], "", "", "offline"),
                                c, userID[c], NoWire)
            /\ accepted' = accepted + 1
            /\ IF ok2
               THEN enginePc' = "unreg_rlock" /\ UNCHANGED active
               ELSE enginePc' = "idle" /\ active' = active - 1

\* What run() does with a registered client under the lock: delete it, close its
\* queue (a second close panics), and, for an identified one, the store call and
\* the broadcasts.
UnregisterRegistered(c) ==
    /\ clients' = clients \ {c}
    /\ sendClosed' = [sendClosed EXCEPT ![c] = TRUE]
    /\ panicked' = (panicked \/ sendClosed[c])
    /\ IF userID[c] # ""
       THEN \E ok1, ok2 \in BOOLEAN :
              /\ StoreCalls(<<TRUE, ok1 /\ BroadcastHasRoom>>, <<ok1, ok2>>)
              /\ UnregisterIdentified(c, ok1, ok2)
       ELSE /\ active' = active - 1
            /\ UNCHANGED <<userIDs, store, broadcast, accepted, enginePc,
                           storeFaults>>

\* The variant without the membership test: every unregister event deletes the
\* client and closes its queue.
UnregisterCaseUnguarded(c) == UnregisterRegistered(c)

\* The body of the unregister case: the part under `if _, ok := h.clients[client]`
\* for a registered client, and the decrement of ActiveConnections after the
\* unlock in either case.
UnregisterCase(c) ==
    IF c \in clients
    THEN UnregisterRegistered(c)
    ELSE /\ active' = active - 1
         /\ UNCHANGED <<clients, sendClosed, panicked, userIDs, store, broadcast,
                        accepted, enginePc, storeFaults>>

\* run(), case client := <-h.unregister.
EngineUnregister(c) ==
    /\ Quiet
    /\ enginePc = "idle"
    /\ SendsUnregister(c)
    /\ rq' = [rq EXCEPT ![c] = Tail(@)]
    /\ UnregisterCase(c)
    /\ UNCHANGED <<auxVars, knownUsers, userID, send, closeVars, rstate, wstate, hb, tq,
                   events, faults, offlineSeen, left, peersAtClose>>

\* The recipients whose outbound queue has no room.
Full == {c \in clients : Len(send[c]) >= SendCap}

\* The fan-out of the broadcast case: `for client := range h.clients` visits the
\* clients in any order; a client with room gets the frame; the first client
\* without room is closed and run() blocks in `h.unregister <- client`, a
\* channel without buffer that only run() receives from, holding the read lock.
FanOut(e) ==
    IF Full = {}
    THEN /\ Enqueue(clients, e)
         /\ enginePc' = "idle"
         /\ UNCHANGED closeVars
    ELSE \E f \in Full : \E S \in SUBSET (clients \ Full) :
         /\ Enqueue(S, e)
         /\ ClientClose(f)
         /\ enginePc' = "bcast_unreg"

\* run(), case message := <-h.broadcast.
EngineBroadcast ==
    /\ Quiet
    /\ enginePc = "idle"
    /\ broadcast # <<>>
    /\ broadcast' = Tail(broadcast)
    /\ FanOut(Head(broadcast))
    /\ UNCHANGED <<auxVars, registryVars, active, userID, sendClosed, rstate, rq, wstate, hb, tq,
                   store, accepted, inputVars, panicked, left, peersAtClose>>

\* ------------------------------------------------------------------ broadcastMessage
\* broadcastMessage before its send: a frame with a sender refreshes that
\* sender's presence record.
RefreshSender(st, m, ok) == IF m.sender # "" THEN SetUserOnline(st, m.sender, ok) ELSE st

\* broadcastMessage: a heartbeat frame is not sent; any other frame is marshalled
\* and sent on h.broadcast, which is the next blocking point of the caller.
BroadcastMessage(m, from, uid, wire) ==
    IF m.type = "heartbeat" THEN <<>> ELSE <<Op("send", m, from, uid, wire)>>

\* The variant that forwards every frame as it was parsed, whatever its type.
DispatchForwardAll(c, w, st, ok) ==
    [store |-> st, ops |-> <<Op("send", Unmarshal(w), c, userID[c], w)>>]

\* ------------------------------------------------------------------ the reader
\* The body of the read loop after the rate limiter, up to its first blocking
\* point: the parse and the switch on wsMsg.Type.  The result is the store and
\* the steps that remain.
Dispatch(c, w, st, ok) ==
    LET m == Unmarshal(w)
        u == userID[c]
    IN  IF ~w.json
        THEN [store |-> st,
              ops |-> BroadcastMessage(WebSocketMessage("message", "", w.text, "", ""),
                                       c, u, w)]
        ELSE CASE m.type = "user_join" ->
                    [store |-> st, ops |-> <<Op("join", m, c, u, w)>>]
               [] m.type = "user_leave" ->
                    [store |-> st,
                     ops |-> IF u # "" THEN <<Op("leave", m, c, u, w)>> ELSE <<>>]
               [] m.type = "message" ->
                    [store |-> SetUserOnline(st, u, ok),
                     ops |-> BroadcastMessage([m EXCEPT !.sender = u], c, u, w)]
               [] m.type = "status_request" ->
                    [store |-> st, ops |-> <<Op("reply", m, c, u, w)>>]
               [] m.type = "heartbeat" ->
                    [store |-> IF u # "" THEN SetUserOnline(st, u, ok) ELSE st,
                     ops |-> <<>>]
               [] OTHER ->
                    \* profile_update and every unrecognized type
                    [store |-> RefreshSender(st, m, ok),
                     ops |-> BroadcastMessage(m, c, u, w)]

\* Whether that part of the loop calls the store (SetUserOnline).
DispatchCallsStore(c, w) ==
    /\ w.json
    /\ CASE w.type = "message" -> TRUE
         [] w.type = "heartbeat" -> userID[c] # ""
         [] w.type \in {"user_join", "user_leave", "status_request"} -> FALSE
         [] OTHER -> w.sender # ""

\* ------------------------------------------------------------------ the limiter
\* c.limiter, a token bucket that holds at most limiterBurst tokens and gains
\* messagesPerSecond tokens per second.  Time is counted in limiter ticks, the
\* time in which the bucket gains one part of a token.
TicksPerSecond == messagesPerSecond * TokenUnit

\* The ticks that make up 200 ms.
WindowTicks == (200 * TicksPerSecond) \div 1000

\* The bucket after one more tick.
Refill(t) == IF t + 1 > limiterBurst * TokenUnit THEN limiterBurst * TokenUnit ELSE t + 1

\* The variant that lets every frame pass.
AllowAlways(t) == TRUE

\* c.limiter.Allow(): a frame passes when the bucket holds a whole token, which
\* it takes.
Allow(t) == t >= TokenUnit

\* One round of the read loop: ReadMessage returns a frame, the presence record
\* of an identified connection is refreshed, and the frame is dispatched when
\* `process` holds.
ReadRound(c, w, process) ==
    /\ Quiet
    /\ rstate[c] = "run"
    /\ rq[c] = <<>>
    /\ ~closed[c]
    /\ \E okA, okB \in BOOLEAN :
         LET st1 == IF userID[c] # "" THEN SetUserOnline(store, userID[c], okA) ELSE store
             d == Dispatch(c, w, st1, okB)
         IN  /\ StoreCalls(<<userID[c] # "", process /\ DispatchCallsStore(c, w)>>,
                           <<okA, okB>>)
             /\ IF process
                THEN store' = d.store /\ rq' = [rq EXCEPT ![c] = d.ops]
                ELSE store' = st1 /\ UNCHANGED rq
    /\ UNCHANGED <<others, now, statusVars, chatVars, messageVars, registryVars, active, broadcast,
                   enginePc, userID, send,
                   sendClosed, closeVars, rstate, wstate, hb, tq, accepted, faults,
                   panicked, offlineSeen, left, peersAtClose>>

\* The variant that dispatches a frame the limiter rejected.
ReadLoopRoundNoDrop(c, w, allowed) == ReadRound(c, w, TRUE)

\* One round of the read loop: a frame over the rate limit is dropped
\* (`continue`), any other frame is dispatched.
ReadLoopRound(c, w, allowed) == ReadRound(c, w, allowed)

\* A frame arrives on c.  The limiter's answer depends on when the earlier
\* frames of c arrived, which a run of the hub does not record: either answer
\* is possible.
ReadFrame(c, w) ==
    /\ events < MaxEvents
    /\ events' = events + 1
    /\ \E allowed \in BOOLEAN : ReadLoopRound(c, w, allowed)
    /\ UNCHANGED <<limiterVars, seen>>

\* A frame arrives on c; a frame that passes the limiter is dispatched and noted
\* with the tick of its arrival.
FrameRead(c, w) ==
    /\ events < MaxEvents
    /\ events' = events + 1
    /\ \E allowed \in BOOLEAN :
         /\ ReadLoopRound(c, w, allowed)
         /\ seen' = IF allowed THEN seen \cup {<<c, w, now>>} ELSE seen
    /\ UNCHANGED limiterVars

\* The reader of c is about to take the step op.
AtOp(c, op) == ~panicked /\ rstate[c] = "run" /\ rq[c] # <<>> /\ Head(rq[c]).op = op

\* case "user_join": bind the connection under the lock, set the user online,
\* start a heartbeat goroutine, then broadcast the frame and the roster.
ReaderJoin(c) ==
    /\ AtOp(c, "join")
    /\ CanLock
    /\ LET o == Head(rq[c])
           u == o.msg.userId
           m == [o.msg EXCEPT !.status = "online"]
       IN  /\ userID' = [userID EXCEPT ![c] = u]
           /\ userIDs' = [userIDs EXCEPT ![u] = c]
           /\ knownUsers' = knownUsers \cup {u}
           /\ \E ok1, ok2 \in BOOLEAN :
                /\ StoreCalls(<<TRUE, m.sender # "">>, <<ok1, ok2>>)
                /\ store' = RefreshSender(SetUserOnline(store, u, ok1), m, ok2)
           /\ hb' = [hb EXCEPT ![c] = "run"]
           /\ left' = [left EXCEPT ![c] = FALSE]
           /\ rq' = [rq EXCEPT ![c] =
                        BroadcastMessage(m, c, u, o.wire) \o <<PlainOp("list")>> \o Tail(@)]
    /\ UNCHANGED <<auxVars, clients, active, broadcast, enginePc, send, sendClosed, closeVars,
                   rstate, wstate, tq, accepted, events, faults, panicked,
                   offlineSeen, peersAtClose>>

\* case "user_leave" of an identified connection: drop the userIDs entry under
\* the lock, set the user offline, then broadcast the frame and the roster.
\* c.userID stays set.
ReaderLeave(c) ==
    /\ AtOp(c, "leave")
    /\ CanLock
    /\ LET o == Head(rq[c])
           m == [o.msg EXCEPT !.status = "offline"]
       IN  /\ userIDs' = [userIDs EXCEPT ![userID[c]] = NoClient]
           /\ left' = [left EXCEPT ![c] = TRUE]
           /\ \E ok1, ok2 \in BOOLEAN :
                /\ StoreCalls(<<TRUE, m.sender # "">>, <<ok1, ok2>>)
                /\ store' = RefreshSender(SetUserOffline(store, userID[c], ok1), m, ok2)
           /\ rq' = [rq EXCEPT ![c] =
                        BroadcastMessage(m, c, userID[c], o.wire) \o <<PlainOp("list")>> \o Tail(@)]
    /\ UNCHANGED <<auxVars, clients, knownUsers, active, broadcast, enginePc, userID, send,
                   sendClosed, closeVars, rstate, wstate, hb, tq, accepted, events,
                   faults, panicked, offlineSeen, peersAtClose>>

\* The variant that sends a roster whether or not the store answered.
BroadcastUserListAlways(q, ok) ==
    <<Op("send", UserList(store), NoClient, "", NoWire)>> \o Tail(q)

\* broadcastUserList up to its send: nothing is sent when GetAllUserStatuses
\* fails; otherwise the roster is built under the read lock.
BroadcastUserList(q, ok) ==
    IF ok
    THEN <<Op("send", UserList(store), NoClient, "", NoWire)>> \o Tail(q)
    ELSE Tail(q)

ReaderList(c) ==
    /\ AtOp(c, "list")
    /\ \E ok \in BOOLEAN :
         /\ ok => CanRLock
         /\ StoreCalls(<<TRUE>>, <<ok>>)
         /\ rq' = [rq EXCEPT ![c] = BroadcastUserList(@, ok)]
    /\ UNCHANGED <<auxVars, registryVars, active, broadcast, enginePc, userID, send, sendClosed,
                   closeVars, rstate, wstate, hb, tq, store, accepted, events,
                   faults, panicked, offlineSeen, left, peersAtClose>>

\* h.broadcast <- messageBytes, at the end of broadcastMessage and of
\* broadcastUserList.
ReaderSend(c) ==
    /\ AtOp(c, "send")
    /\ BroadcastHasRoom
    /\ LET o == Head(rq[c])
       IN  broadcast' = Accept(broadcast, o.msg, o.from, o.uid, o.wire)
    /\ accepted' = accepted + 1
    /\ rq' = [rq EXCEPT ![c] = Tail(@)]
    /\ UNCHANGED <<auxVars, registryVars, active, enginePc, userID, send, sendClosed, closeVars,
                   rstate, wstate, hb, tq, store, inputVars, panicked, offlineSeen, left, peersAtClose>>

\* case "status_request": sendUserListWithStatus up to its send.
ReaderReply(c) ==
    /\ AtOp(c, "reply")
    /\ \E ok \in BOOLEAN :
         /\ ok => CanRLock
         /\ StoreCalls(<<TRUE>>, <<ok>>)
         /\ rq' = [rq EXCEPT ![c] =
                      IF ok
                      THEN <<Op("own", UserListWithStatus(GetAllUserStatuses(store)),
                                c, userID[c], NoWire)>> \o Tail(@)
                      ELSE Tail(@)]
    /\ UNCHANGED <<auxVars, registryVars, active, broadcast, enginePc, userID, send, sendClosed,
                   closeVars, rstate, wstate, hb, tq, store, accepted, events,
                   faults, panicked, offlineSeen, left, peersAtClose>>

\* client.send <- msgBytes at the end of sendUserListWithStatus: a blocking send
\* on the requester's own queue, which panics when the queue is closed.
ReaderSendOwn(c) ==
    /\ AtOp(c, "own")
    /\ rq' = [rq EXCEPT ![c] = Tail(@)]
    /\ IF sendClosed[c]
       THEN panicked' = TRUE /\ UNCHANGED <<send, offlineSeen>>
       ELSE /\ Len(send[c]) < SendCap
            /\ LET o == Head(rq[c])
               IN  Enqueue({c}, Entry(o.msg, 0, o.from, o.uid, o.wire))
            /\ UNCHANGED panicked
    /\ UNCHANGED <<auxVars, registryVars, active, broadcast, enginePc, userID, sendClosed,
                   closeVars, rstate, wstate, hb, tq, store, accepted, inputVars, left, peersAtClose>>

\* The variant whose reader still answers a status_request after it has sent the
\* connection on h.unregister.
CloseSequenceThenReply(c) == <<PlainOp("unreg"), PlainOp("reply"), PlainOp("close")>>

\* The variant that sends the connection on h.unregister before it broadcasts
\* user_leave.
CloseSequenceUnregisterFirst(c) ==
    IF userID[c] # ""
    THEN <<PlainOp("unreg")>>
         \o BroadcastMessage(WebSocketMessage("user_leave", userID[c], "", "", "offline"),
                             c, userID[c], NoWire)
         \o <<PlainOp("list"), PlainOp("close")>>
    ELSE <<PlainOp("unreg"), PlainOp("close")>>

\* The close sequence deferred by readPump, up to its first blocking point: an
\* identified connection sets its user offline and broadcasts user_leave and
\* the roster; every connection then sends itself on h.unregister and calls
\* close().
CloseSequence(c) ==
    IF userID[c] # ""
    THEN BroadcastMessage(WebSocketMessage("user_leave", userID[c], "", "", "offline"),
                          c, userID[c], NoWire)
         \o <<PlainOp("list"), PlainOp("unreg"), PlainOp("close")>>
    ELSE <<PlainOp("unreg"), PlainOp("close")>>

\* The connections other than c that are registered, bound to a user id and
\* open.
IdentifiedPeers(c) == {a \in clients \ {c} : userID[a] # "" /\ ~left[a] /\ ~closed[a]}

\* ReadMessage returns an error: the transport was closed on this side, or the
\* peer went away (or let the read deadline pass).  The loop ends and the close
\* sequence starts.
ReadFails(c) ==
    /\ Quiet
    /\ rstate[c] = "run"
    /\ rq[c] = <<>>
    /\ rq' = [rq EXCEPT ![c] = CloseSequence(c)]
    /\ peersAtClose' = [peersAtClose EXCEPT ![c] = IdentifiedPeers(c)]
    /\ \E ok \in BOOLEAN :
         /\ StoreCalls(<<userID[c] # "">>, <<ok>>)
         /\ store' = IF userID[c] # "" THEN SetUserOffline(store, userID[c], ok) ELSE store
    /\ UNCHANGED <<auxVars, registryVars, active, broadcast, enginePc, userID, send, sendClosed,
                   closeVars, rstate, wstate, hb, tq, accepted, events,
                   panicked, offlineSeen, left>>

\* ReadMessage fails because the transport was closed on this side or because
\* of the peer or the network.
ReadError(c) == Fault(c) /\ ReadFails(c)

\* The last step of the close sequence: c.close(), and the reader is gone.
ReaderClose(c) ==
    /\ AtOp(c, "close")
    /\ ClientClose(c)
    /\ rq' = [rq EXCEPT ![c] = Tail(@)]
    /\ rstate' = [rstate EXCEPT ![c] = "done"]
    /\ UNCHANGED <<auxVars, registryVars, active, broadcast, enginePc, userID, send, sendClosed,
                   wstate, hb, tq, store, accepted, inputVars, panicked, offlineSeen, left, peersAtClose>>

\* ------------------------------------------------------------------ the writer
\* The variant that takes the newest frame of the queue.
WriterTakeNewest(q) == [e |-> q[Len(q)], rest |-> SubSeq(q, 1, Len(q) - 1)]

\* The frame the writer takes from c.send: the oldest one.
WriterTake(q) == [e |-> Head(q), rest |-> Tail(q)]

\* writePump returns: its deferred c.close() runs.
WriterExit(c) ==
    /\ wstate' = [wstate EXCEPT ![c] = "done"]
    /\ ClientClose(c)

\* writePump, case message, ok := <-c.send with a frame, and each round of the
\* batch loop after it (the same receive and write, once per queued frame): the
\* frame is handed to WriteMessage, which returns at once, or blocks because the
\* peer does not take the bytes (a fault), or fails and ends the writer.  A
\* write on a transport that was closed fails.
WritePumpWrite(c) ==
    /\ ~panicked
    /\ wstate[c] = "run"
    /\ send[c] # <<>>
    /\ LET t == WriterTake(send[c])
       IN  send' = [send EXCEPT ![c] = t.rest]
    /\ \E res \in {"ok", "blocks", "fails"} :
         /\ closed[c] => res = "fails"
         /\ CASE res = "fails" ->
                   WriterExit(c) /\ Fault(c)
              [] res = "blocks" ->
                   /\ wstate' = [wstate EXCEPT ![c] = "writing"]
                   /\ Fault(c)
                   /\ UNCHANGED closeVars
              [] OTHER ->
                   UNCHANGED <<wstate, closeVars, faults>>
    /\ UNCHANGED <<auxVars, registryVars, active, broadcast, enginePc, userID, sendClosed, rstate,
                   rq, hb, tq, store, accepted, events, storeFaults, panicked,
                   offlineSeen, left, peersAtClose>>

\* A blocked WriteMessage returns: the peer took the bytes, or the write
\* deadline passed or the transport was closed, which ends the writer.
WritePumpUnblock(c) ==
    /\ Quiet
    /\ wstate[c] = "writing"
    /\ \E ok \in BOOLEAN :
         IF ok /\ ~closed[c]
         THEN wstate' = [wstate EXCEPT ![c] = "run"] /\ UNCHANGED closeVars
         ELSE WriterExit(c)
    /\ UNCHANGED <<auxVars, registryVars, active, broadcast, enginePc, userID, send, sendClosed,
                   rstate, rq, hb, tq, store, accepted, inputVars, panicked, offlineSeen, left, peersAtClose>>

\* writePump, case message, ok := <-c.send with ok false: the queue is closed
\* and empty; the writer sends the close frame and returns.
WritePumpClosed(c) ==
    /\ ~panicked
    /\ wstate[c] = "run"
    /\ send[c] = <<>>
    /\ sendClosed[c]
    /\ WriterExit(c)
    /\ UNCHANGED <<auxVars, registryVars, active, broadcast, enginePc, userID, send, sendClosed,
                   rstate, rq, hb, tq, store, accepted, inputVars, panicked,
                   offlineSeen, left, peersAtClose>>

\* writePump, case <-ticker.C: the write of a ping fails and the writer returns
\* (a ping that is written changes nothing).
WritePumpPing(c) ==
    /\ Quiet
    /\ wstate[c] = "run"
    /\ WriterExit(c)
    /\ Fault(c)
    /\ UNCHANGED <<auxVars, registryVars, active, broadcast, enginePc, userID, send, sendClosed,
                   rstate, rq, hb, tq, store, accepted, events, storeFaults,
                   panicked, offlineSeen, left, peersAtClose>>

\* writePump, case <-c.ctx.Done().
WritePumpDone(c) ==
    /\ ~panicked
    /\ wstate[c] = "run"
    /\ closed[c]
    /\ WriterExit(c)
    /\ UNCHANGED <<auxVars, registryVars, active, broadcast, enginePc, userID, send, sendClosed,
                   rstate, rq, hb, tq, store, accepted, inputVars, panicked,
                   offlineSeen, left, peersAtClose>>

\* ------------------------------------------------------------------ the heartbeat
\* startHeartbeat, case <-ticker.C: refresh the presence record.  When the
\* context is cancelled and a tick is pending, select may take the tick once
\* more before it takes Done.
Heartbeat(c) ==
    /\ Quiet
    /\ hb[c] \in {"run", "due"}
    /\ \E ok \in BOOLEAN :
         /\ StoreCalls(<<userID[c] # "">>, <<ok>>)
         /\ store' = IF userID[c] # "" THEN SetUserOnline(store, userID[c], ok) ELSE store
    /\ hb' = [hb EXCEPT ![c] = IF closed[c] THEN "done" ELSE "run"]
    /\ UNCHANGED <<auxVars, registryVars, active, broadcast, enginePc, userID, send, sendClosed,
                   closeVars, rstate, rq, wstate, tq, accepted, events, faults,
                   panicked, offlineSeen, left, peersAtClose>>

\* startHeartbeat, case <-c.ctx.Done().
HeartbeatDone(c) ==
    /\ Quiet
    /\ hb[c] \in {"run", "due"}
    /\ closed[c]
    /\ hb' = [hb EXCEPT ![c] = "done"]
    /\ UNCHANGED <<auxVars, registryVars, active, broadcast, enginePc, userID, send, sendClosed,
                   closeVars, rstate, rq, wstate, tq, store, accepted, inputVars,
                   panicked, offlineSeen, left, peersAtClose>>

\* ------------------------------------------------------------------ the roster broadcaster
\* periodicStatusBroadcast, case <-ticker.C: broadcastUserList up to its send.
PeriodicStatusBroadcast ==
    /\ Quiet
    /\ tq = <<>>
    /\ events < MaxEvents
    /\ events' = events + 1
    /\ \E ok \in BOOLEAN :
         /\ ok => CanRLock
         /\ StoreCalls(<<TRUE>>, <<ok>>)
         /\ tq' = BroadcastUserList(<<PlainOp("list")>>, ok)
    /\ UNCHANGED <<auxVars, registryVars, active, broadcast, enginePc, userID, send, sendClosed,
                   closeVars, rstate, rq, wstate, hb, store, accepted, faults,
                   panicked, offlineSeen, left, peersAtClose>>

\* The broadcaster's h.broadcast <- msgBytes.
PeriodicSend ==
    /\ ~panicked
    /\ tq # <<>>
    /\ BroadcastHasRoom
    /\ LET o == Head(tq)
       IN  broadcast' = Accept(broadcast, o.msg, o.from, o.uid, o.wire)
    /\ accepted' = accepted + 1
    /\ tq' = Tail(tq)
    /\ UNCHANGED <<auxVars, registryVars, active, enginePc, userID, send, sendClosed, closeVars,
                   rstate, rq, wstate, hb, store, inputVars, panicked, offlineSeen, left, peersAtClose>>

\* ------------------------------------------------------------------ specification
Next ==
    \/ \E c \in Clients : HandleWebSocket(c)
    \/ \E c \in Clients : EngineRegister(c)
    \/ \E c \in Clients : EngineUnregister(c)
    \/ EngineBroadcast
    \/ \E c \in Clients : \E w \in InFrames : ReadFrame(c, w)
    \/ \E c \in Clients : ReaderJoin(c)
    \/ \E c \in Clients : ReaderLeave(c)
    \/ \E c \in Clients : ReaderList(c)
    \/ \E c \in Clients : ReaderSend(c)
    \/ \E c \in Clients : ReaderReply(c)
    \/ \E c \in Clients : ReaderSendOwn(c)
    \/ \E c \in Clients : ReadError(c)
    \/ \E c \in Clients : ReaderClose(c)
    \/ \E c \in Clients : WritePumpWrite(c)
    \/ \E c \in Clients : WritePumpUnblock(c)
    \/ \E c \in Clients : WritePumpClosed(c)
    \/ \E c \in Clients : WritePumpPing(c)
    \/ \E c \in Clients : WritePumpDone(c)
    \/ \E c \in Clients : Heartbeat(c)
    \/ \E c \in Clients : HeartbeatDone(c)
    \/ PeriodicStatusBroadcast
    \/ PeriodicSend

Spec == Init /\ [][Next]_vars

\* The hub one connection below the cap when the handshakes of the run arrive.
AdmissionInit ==
    /\ Settled({}, [c \in Clients |-> ""], maxConnections - 1)
    /\ events = 0
    /\ faults = 0
    /\ storeFaults = 0
    /\ tokens = 0
    /\ elapsed = 0
    /\ received = 0
    /\ passed = 0
    /\ seen = {}
    /\ lastWrite = NoWrites
    /\ got = NoStatus
    /\ chats = [ch \in Chats |-> ""]
    /\ chatUsers = [ch \in Chats |-> {}]
    /\ chatResult = NoCall
    /\ messages = {}
    /\ saved = 0
    /\ messageKeys = {}
    /\ chatMessages = [ch \in Chats |-> NoEntry]
    /\ history = NoHistory
    /\ now = 0

AdmissionSpec == AdmissionInit /\ [][Next]_vars

\* ------------------------------------------------------------------ a burst on one connection
\* The connection the burst arrives on.
BurstClient == CHOOSE c \in Clients : TRUE

\* The frames of the burst: the frames that reach the broadcast stage when they
\* pass the limiter.
BurstFrames ==
    {w \in InFrames :
        ~w.json \/ w.type \notin {"user_join", "user_leave", "status_request", "heartbeat"}}

\* Every connection is registered, the burst connection is identified or not,
\* and its bucket is at any level when the burst begins.
LimiterInit ==
    /\ \E u \in UserKeys :
         Settled(Clients, [c \in Clients |-> IF c = BurstClient THEN u ELSE ""], 0)
    /\ events = 0
    /\ faults = 0
    /\ storeFaults = 0
    /\ tokens \in 0..(limiterBurst * TokenUnit)
    /\ elapsed = 0
    /\ received = 0
    /\ passed = 0
    /\ seen = {}
    /\ lastWrite = NoWrites
    /\ got = NoStatus
    /\ chats = [ch \in Chats |-> ""]
    /\ chatUsers = [ch \in Chats |-> {}]
    /\ chatResult = NoCall
    /\ messages = {}
    /\ saved = 0
    /\ messageKeys = {}
    /\ chatMessages = [ch \in Chats |-> NoEntry]
    /\ history = NoHistory
    /\ now = 0

\* One limiter tick passes within the 200 ms of the burst.
LimiterTick ==
    /\ elapsed < WindowTicks
    /\ elapsed' = elapsed + 1
    /\ tokens' = Refill(tokens)
    /\ UNCHANGED <<clients, userIDs, knownUsers, active, broadcast, enginePc, userID, send,
                   sendClosed, closed, connCloses, cancels, rstate, rq, wstate,
                   hb, tq, store, accepted, events, faults, storeFaults, panicked,
                   offlineSeen, left, peersAtClose, others, received, passed, seen,
                   statusVars, chatVars, messageVars, now>>

\* A frame of the burst is read: the limiter decides from its bucket.
BurstFrame(w) ==
    /\ received < MaxBurst
    /\ received' = received + 1
    /\ LET allowed == Allow(tokens)
       IN  /\ ReadLoopRound(BurstClient, w, allowed)
           /\ passed' = IF allowed THEN passed + 1 ELSE passed
           /\ tokens' = IF allowed THEN tokens - TokenUnit ELSE tokens
    /\ UNCHANGED <<elapsed, events, seen>>

LimiterNext ==
    \/ LimiterTick
    \/ \E w \in BurstFrames : BurstFrame(w)
    \/ \E c \in Clients : ReaderSend(c)
    \/ EngineBroadcast
    \/ \E c \in Clients : WritePumpWrite(c)
    \/ \E c \in Clients : WritePumpUnblock(c)
    \/ \E c \in Clients : Heartbeat(c)

LimiterSpec == LimiterInit /\ [][LimiterNext]_vars

\* ------------------------------------------------------------------ the hub under its timers
\* How long a timed run is followed: up to the expiry of a record written when
\* the read deadline ends a reader.
Horizon == PongTicks + TTLTicks

\* Every connection is registered and identified and has just been heard from
\* for the last time: from here on no peer answers a ping, so every read
\* deadline (pongWait after the last pong) is PongTicks away.  The presence
\* store answers every call of the run.
TimedInit ==
    /\ \E ids \in [Clients -> Users] : Settled(Clients, ids, 0)
    /\ events = 0
    /\ faults = 0
    /\ storeFaults = MaxStoreFaults
    /\ tokens = 0
    /\ elapsed = 0
    /\ received = 0
    /\ passed = 0
    /\ seen = {}
    /\ lastWrite = NoWrites
    /\ got = NoStatus
    /\ chats = [ch \in Chats |-> ""]
    /\ chatUsers = [ch \in Chats |-> {}]
    /\ chatResult = NoCall
    /\ messages = {}
    /\ saved = 0
    /\ messageKeys = {}
    /\ chatMessages = [ch \in Chats |-> NoEntry]
    /\ history = NoHistory
    /\ now = 0

\* The reader of c is in ReadMessage and the read cannot go on: the transport
\* is closed or the read deadline has passed.
ReadOverdue(c) ==
    rstate[c] = "run" /\ rq[c] = <<>> /\ (closed[c] \/ now >= PongTicks)

\* Nothing is left to happen without an input or a timer: the goroutines that
\* can run have run, run() has emptied its channels or is blocked, blocked
\* writes have returned (writeWait is shorter than a tick) and cancelled
\* heartbeat goroutines have ended.
AtRest ==
    /\ Quiet
    /\ \A c \in Clients : wstate[c] # "writing" /\ ~(hb[c] = "run" /\ closed[c])
    /\ enginePc = "idle" => (broadcast = <<>> /\ \A c \in Clients : ~SendsUnregister(c))

\* One tick passes, once everything that was due before it has happened: the
\* hub is at rest, overdue reads have failed and the heartbeat tickers have been
\* served.  The tickers of the running heartbeat goroutines fire (the last of
\* their ticks within the tick that passes falls on its end).
Tick ==
    /\ AtRest
    /\ now < Horizon
    /\ \A c \in Clients : hb[c] # "due" /\ ~ReadOverdue(c)
    /\ now' = now + 1
    /\ hb' = [c \in Clients |-> IF hb[c] = "run" /\ HeartbeatAtTick THEN "due" ELSE hb[c]]
    /\ UNCHANGED <<clients, userIDs, knownUsers, active, broadcast, enginePc, userID, send,
                   sendClosed, closed, connCloses, cancels, rstate, rq, wstate,
                   tq, store, accepted, events, faults, storeFaults, panicked,
                   offlineSeen, left, peersAtClose, others, limiterVars, seen,
                   statusVars, chatVars, messageVars>>

\* startHeartbeat, case <-ticker.C, when the ticker fires.
TimedHeartbeat(c) == hb[c] = "due" /\ Heartbeat(c)

\* ReadMessage fails because the read deadline passed without a pong.
ReadTimeout(c) ==
    /\ AtRest
    /\ now >= PongTicks
    /\ ~closed[c]
    /\ ReadFails(c)
    /\ UNCHANGED faults

\* The frames read during a timed run: identifications.
TimedFrames == {w \in InFrames : w.json /\ w.type = "user_join"}

\* The one frame of a timed run arrives, while the hub is at rest.
TimedReadFrame(c, w) == AtRest /\ events = 0 /\ FrameRead(c, w)

\* The write of a ping fails while the hub is at rest.
TimedPing(c) == AtRest /\ WritePumpPing(c)

TimedNext ==
    \/ Tick
    \/ \E c \in Clients : TimedHeartbeat(c)
    \/ \E c \in Clients : HeartbeatDone(c)
    \/ \E c \in Clients : ReadTimeout(c)
    \/ \E c \in Clients : EngineUnregister(c)
    \/ EngineBroadcast
    \/ \E c \in Clients : \E w \in TimedFrames : TimedReadFrame(c, w)
    \/ \E c \in Clients : ReaderJoin(c)
    \/ \E c \in Clients : ReaderList(c)
    \/ \E c \in Clients : ReaderSend(c)
    \/ \E c \in Clients : ReadError(c)
    \/ \E c \in Clients : ReaderClose(c)
    \/ \E c \in Clients : WritePumpWrite(c)
    \/ \E c \in Clients : WritePumpUnblock(c)
    \/ \E c \in Clients : WritePumpClosed(c)
    \/ \E c \in Clients : TimedPing(c)
    \/ \E c \in Clients : WritePumpDone(c)

TimedSpec == TimedInit /\ [][TimedNext]_vars

\* ------------------------------------------------------------------ the unregister case alone
\* The registry states the unregister case is applied to: any set of registered
\* connections, each identified or not.
UnregisterInit ==
    /\ \E R \in SUBSET Clients :
         \E ids \in [Clients -> UserKeys] :
            /\ \A c \in Clients \ R : ids[c] = ""
            /\ Settled(R, ids, 0)
    /\ events = 0
    /\ faults = 0
    /\ storeFaults = 0
    /\ tokens = 0
    /\ elapsed = 0
    /\ received = 0
    /\ passed = 0
    /\ seen = {}
    /\ lastWrite = NoWrites
    /\ got = NoStatus
    /\ chats = [ch \in Chats |-> ""]
    /\ chatUsers = [ch \in Chats |-> {}]
    /\ chatResult = NoCall
    /\ messages = {}
    /\ saved = 0
    /\ messageKeys = {}
    /\ chatMessages = [ch \in Chats |-> NoEntry]
    /\ history = NoHistory
    /\ now = 0

\* run() receives c from h.unregister, whoever sent it and whether or not c is
\* registered.
UnregisterEvent(c) ==
    /\ enginePc = "idle"
    /\ events < MaxEvents
    /\ events' = events + 1
    /\ UnregisterCase(c)
    /\ UNCHANGED <<auxVars, knownUsers, userID, send, closeVars, rstate, rq, wstate, hb, tq,
                   faults, offlineSeen, left, peersAtClose>>

UnregisterNext == \E c \in Clients : UnregisterEvent(c)

UnregisterSpec == UnregisterInit /\ [][UnregisterNext]_vars

\* ------------------------------------------------------------------ properties
\* run() took a frame from h.broadcast in this step.
BroadcastStep == broadcast # <<>> /\ broadcast' = Tail(broadcast)

\* run() is blocked inside a case of its select.  No action changes enginePc
\* once it is not "idle": nothing receives from h.unregister or from
\* h.broadcast but run(), and the lock it waits for is the one it holds.
EngineStuck == enginePc # "idle"

\* C1: the two registry mappings agree: a user id that userIDs maps to a
\* connection c has c registered and bound to that id, and a registered
\* connection that is bound to an id and has not sent user_leave is the one
\* userIDs maps its id to.
RegistryConsistent ==
    /\ \A u \in UserKeys :
         userIDs[u] # NoClient =>
            userIDs[u] \in clients /\ userID[userIDs[u]] = u
    /\ \A c \in clients :
         (userID[c] # "" /\ ~left[c]) => userIDs[userID[c]] = c

\* C2: the engine blocks only on its event source: after every register,
\* unregister and broadcast event run() is back at its select.
EngineAtEventSource == enginePc = "idle"

\* C3: a recipient whose outbound queue is full when a frame is fanned out is
\* closed and removed from the registry as part of that broadcast, and the
\* frame is not placed on its queue.
FullRecipientRemoved ==
    [][BroadcastStep =>
         \A c \in Full : c \notin clients' /\ closed'[c] /\ send'[c] = send[c]]_vars

\* C4: a slow consumer does not stall the others: a broadcast that finds a
\* recipient's queue full still places the frame on the queue of every
\* registered connection with room, and run() returns to its select for the
\* next event.
SlowConsumerDoesNotStall ==
    [][(BroadcastStep /\ Full # {}) =>
         /\ \A c \in clients \ Full : send'[c] = Append(send[c], Head(broadcast))
         /\ enginePc' = "idle"]_vars

\* The order numbers of the frames of the engine in a queue (a frame that did
\* not go through h.broadcast has order number 0).
EngineSeqs(q) == {q[i].seq : i \in 1..Len(q)} \ {0}

\* C5: per-recipient FIFO: whenever the writer of a connection takes a frame
\* of the engine from c.send to write it, that frame was accepted by
\* h.broadcast before every frame still in c.send and every frame still in
\* h.broadcast; so the frames written to a connection are written in the
\* order in which h.broadcast accepted them.
PerRecipientFIFO ==
    [][\A c \in Clients :
         \A s \in EngineSeqs(send[c]) \ EngineSeqs(send'[c]) :
            \A t \in EngineSeqs(send'[c]) \cup EngineSeqs(broadcast') : s < t]_vars

\* C5, witness: the writer of a connection is running with two frames of the
\* engine in its queue, which it writes one after the other.
TwoFramesQueued ==
    \E c \in Clients :
        /\ wstate[c] = "run"
        /\ Len(send[c]) >= 2
        /\ send[c][1].seq # 0
        /\ send[c][2].seq # 0

\* C6: a message or profile_update frame that an identified connection sent
\* is on an outbound queue with every field as the client wrote it, except
\* sender, which is the user id of the connection that sent it; and it is on
\* no queue twice.
RoundTrip ==
    \A c \in Clients : \A i \in 1..Len(send[c]) :
        LET e == send[c][i]
        IN  (e.wire.json /\ e.wire.type \in {"message", "profile_update"} /\ e.uid # "") =>
              /\ e.msg.type = e.wire.type
              /\ e.msg.userId = e.wire.userId
              /\ e.msg.text = e.wire.text
              /\ e.msg.status = e.wire.status
              /\ e.msg.extra = e.wire.extra
              /\ e.msg.sender = e.uid
              /\ \A j \in 1..Len(send[c]) : send[c][j].seq = e.seq => j = i

\* The reader of b ended and b was bound to a user id: b disconnected.
Disconnected(b) == userID[b] # "" /\ ~left[b] /\ b \notin clients /\ sendClosed[b]

\* a is connected and its queue is drained.
Draining(a) == a \in clients /\ ~closed[a] /\ wstate[a] = "run" /\ send[a] = <<>>

\* C7: when identified connection B disconnects while identified connection A
\* stays connected and drains its queue, a user_leave for B is placed on A's
\* queue under every interleaving: no run leaves run() blocked for ever with
\* B gone and the user_leave of B never placed on the queue of a peer A that
\* was identified when B's reader ended and is still connected.
LeaveReachesPeers ==
    \A b \in Clients : \A a \in peersAtClose[b] :
        (EngineStuck /\ Disconnected(b) /\ Draining(a) /\ userID[a] # userID[b]) =>
            <<b, "user_leave">> \in offlineSeen[a]

\* The reader or the writer of c hit a terminal I/O condition: the writer
\* returned, or the reader left its loop.
Terminal(c) ==
    \/ wstate[c] = "done"
    \/ rstate[c] = "done"
    \/ \E i \in 1..Len(rq[c]) : rq[c][i].op = "unreg"

\* C8: a connection whose reader or writer hit a terminal I/O condition
\* reaches Closed (removed from the registry, outbound queue closed, transport
\* closed): no run leaves run() blocked for ever with such a connection short
\* of Closed.
TerminalReachesClosed ==
    \A c \in Clients :
        (EngineStuck /\ Terminal(c) /\ rstate[c] \in {"run", "done"}) =>
            c \notin clients /\ sendClosed[c] /\ closed[c]

\* The kinds of offline event about b that the teardown of b put on a's queue.
OfflineEvents(a, b) == {t \in {"user_leave", "status_change"} : <<b, t>> \in offlineSeen[a]}

\* C9: the teardown of one identified connection shows as a single close: no
\* other connection gets more than one offline event for it, and nothing
\* panics.
SingleOfflineTransition ==
    /\ ~panicked
    /\ \A a, b \in Clients : Cardinality(OfflineEvents(a, b)) <= 1

\* C10: whatever the calls of Client.close (the reader's close sequence, the
\* writer's exit, the slow-consumer path of run()), the transport's Close and
\* the cancellation function of a connection are each called exactly once:
\* once when the connection is closed, and not before.
CloseExactlyOnce ==
    \A c \in Clients :
        /\ closed[c] => connCloses[c] = 1 /\ cancels[c] = 1
        /\ ~closed[c] => connCloses[c] = 0 /\ cancels[c] = 0

\* C10, witness: close was called by the writer's exit and by the reader's
\* close sequence of the same connection.
ClosedFromReaderAndWriter ==
    \E c \in Clients : wstate[c] = "done" /\ rstate[c] = "done" /\ connCloses[c] = 1

\* C12: at most one live connection is bound to a given user id: a user id is
\* never the bound id of two registered connections that have not sent
\* user_leave.
OneConnectionPerUser ==
    \A c, d \in clients :
        (c # d /\ userID[c] # "" /\ ~left[c] /\ ~left[d]) => userID[c] # userID[d]

\* C14: when run() unregisters a registered connection bound to user id u, the
\* presence record of u becomes offline and a status_change(offline) for u is
\* placed on the outbound queue of every remaining connection: no run leaves
\* run() blocked for ever inside the unregister case with the record set
\* offline and the status_change not on the queue of a remaining connection.
UnregisterAnnounced ==
    \A b \in Clients : \A a \in clients :
        (/\ enginePc \in {"unreg_send", "unreg_rlock"}
         /\ Disconnected(b)
         /\ store[userID[b]].v = "offline"
         /\ userID[a] # userID[b]) =>
            <<b, "status_change">> \in offlineSeen[a]

\* The periodic broadcaster built a roster in this step.
PeriodicRosterBuilt == tq = <<>> /\ tq' # <<>>

\* The user ids that userIDs maps to a registered connection.
BoundUsers == {u \in UserKeys : userIDs[u] # NoClient /\ userIDs[u] \in clients}

\* C17: in every roster the periodic broadcaster builds, every user id bound to
\* a registered connection at that moment has status online, whatever the
\* presence store holds for it.
BoundUsersShownOnline ==
    [][PeriodicRosterBuilt =>
         \A u \in BoundUsers : Head(tq').msg.statuses[u] = "online"]_vars

\* A roster was built in this step by the reader of c (broadcastUserList or
\* sendUserListWithStatus).
ReaderRosterBuilt(c) ==
    /\ rq[c] # <<>>
    /\ Head(rq[c]).op \in {"list", "reply"}
    /\ rq'[c] # <<>>
    /\ Head(rq'[c]).op \in {"send", "own"}

\* C18: the known-users set only grows, and every roster lists exactly the
\* known users at the time it is built.
RosterListsKnownUsers ==
    [][/\ knownUsers \subseteq knownUsers'
       /\ PeriodicRosterBuilt => Head(tq').msg.users = knownUsers
       /\ \A c \in Clients :
            ReaderRosterBuilt(c) => Head(rq'[c]).msg.users = knownUsers]_vars

\* C18, witness: a roster waiting in h.broadcast lists a user that no
\* connection is bound to any more.
RosterListsDepartedUser ==
    \E i \in 1..Len(broadcast) :
        /\ broadcast[i].msg.type = "user_list"
        /\ \E u \in broadcast[i].msg.users : userIDs[u] = NoClient

\* The number of registered connections.
Registered == Cardinality(clients) + others

\* C11: the number of registered connections never exceeds maxConnections,
\* under any interleaving of concurrent handshakes.
RegisteredWithinCap == Registered <= maxConnections

\* C13: an unregister event for a connection that is not in the registry leaves
\* clients, userIDs, knownUsers, every outbound queue and the presence store
\* unchanged, closes no queue, puts nothing on h.broadcast and raises no error.
UnregisterAbsentIsNoOp ==
    [][\A c \in Clients :
         (c \notin clients /\ UnregisterEvent(c)) =>
            /\ UNCHANGED <<clients, userIDs, knownUsers, send, store>>
            /\ UNCHANGED <<sendClosed, broadcast, accepted, panicked, enginePc>>]_vars

\* C13, witness: a connection that run() removed and closed was unregistered a
\* second time (only that decrements ActiveConnections below the registry size).
UnregisteredTwice ==
    \E c \in Clients \ clients :
        sendClosed[c] /\ ~panicked /\ active < Registered

\* C19: with the limiter of 5 frames per second and burst 1, of the frames (up
\* to 20) received on one connection within 200 ms at most 6 are dispatched (in
\* fact at most the burst and the one token gained in 200 ms); the others are
\* dropped, and the connection stays open and registered unless its transport
\* fails.
BurstMostlyDropped ==
    (received <= MaxBurst /\ elapsed <= WindowTicks) =>
        /\ passed <= 6
        /\ passed <= limiterBurst + 1
        /\ passed <= received
        /\ faults = 0 => (BurstClient \in clients /\ ~closed[BurstClient])

\* C19, witness: all frames of the burst arrived within the 200 ms, some
\* passed the limiter and some were dropped.
BurstReceived ==
    /\ received = MaxBurst
    /\ elapsed <= WindowTicks
    /\ passed >= 1
    /\ passed < received
    /\ BurstClient \in clients /\ ~closed[BurstClient]

\* A frame was read in this step and the limiter rejected it.
FrameRejected == received' = received + 1 /\ passed' = passed

\* C20: a frame the limiter rejects leaves no step of its handling pending,
\* changes no registry mapping, puts no frame on h.broadcast or on any outbound
\* queue (so no error reaches the sender), and leaves the connection open and
\* its reader in the loop.
RejectedFrameDropped ==
    [][FrameRejected =>
         /\ UNCHANGED <<clients, userIDs, knownUsers>>
         /\ UNCHANGED <<rq, tq, broadcast, accepted, send>>
         /\ UNCHANGED <<closed, sendClosed, rstate, wstate, panicked>>
         /\ rq'[BurstClient] = <<>> /\ rstate'[BurstClient] = "run"]_vars

\* C20, witness: a frame of the burst was rejected while an earlier one is still
\* on its way, and the connection is open and registered.
FrameWasRejected ==
    /\ received > passed
    /\ passed >= 1
    /\ broadcast # <<>>
    /\ BurstClient \in clients /\ ~closed[BurstClient]

\* The reader of c is in its loop: the close sequence has not begun.
ReaderInLoop(c) ==
    /\ rstate[c] = "run"
    /\ \A i \in 1..Len(rq[c]) : rq[c][i].op \notin {"unreg", "close"}

\* No other connection identified with the user id of c.
SoleBinding(c) == \A d \in Clients \ {c} : userID[d] # userID[c]

\* The status a roster built now would carry for u.
RosterStatus(u) == GetAllUserStatuses(store)[u]

\* C15: with a working presence store (no call fails in a timed run), from the
\* identification of a connection as u until its reader loop exits the presence
\* record of u never expires.
RecordOutlivesReader ==
    \A c \in Clients :
        (userID[c] # "" /\ ~left[c] /\ SoleBinding(c) /\ ReaderInLoop(c)) =>
            RosterStatus(userID[c]) # "none"

\* C16: once an identified connection has gone without any activity for longer
\* than the presence TTL, its close sequence has not run yet and a roster built
\* now does not show its user online.
SilentShownOffline ==
    \A c \in Clients :
        (events = 0 /\ faults = 0 /\ SoleBinding(c) /\ now > TTLTicks) =>
            /\ ReaderInLoop(c)
            /\ RosterStatus(userID[c]) # "online"

\* The reader of c is handling a frame that was not valid JSON and is at its send
\* on h.broadcast.
SendsRawFrame(c) ==
    /\ AtOp(c, "send")
    /\ Head(rq[c]).wire # NoWire
    /\ ~Head(rq[c]).wire.json

\* C21: a frame that is not valid JSON is broadcast as a message frame and the
\* reader goes on to read the next frame: no run leaves the reader blocked for
\* ever in the send of that frame on h.broadcast.
RawFrameReaderGoesOn ==
    \A c \in Clients : ~(SendsRawFrame(c) /\ EngineStuck /\ ~BroadcastHasRoom)

\* ------------------------------------------------------------------ the frames of a run
\* Every connection is registered when the frames of the run arrive, the first
\* identified or not and the others identified.
FrameInit ==
    /\ \E u \in {"", "u1"} :
         Settled(Clients, [c \in Clients |-> IF c = 1 THEN u ELSE "u2"], 0)
    /\ events = 0
    /\ faults = 0
    /\ storeFaults = 0
    /\ tokens = 0
    /\ elapsed = 0
    /\ received = 0
    /\ passed = 0
    /\ seen = {}
    /\ lastWrite = NoWrites
    /\ got = NoStatus
    /\ chats = [ch \in Chats |-> ""]
    /\ chatUsers = [ch \in Chats |-> {}]
    /\ chatResult = NoCall
    /\ messages = {}
    /\ saved = 0
    /\ messageKeys = {}
    /\ chatMessages = [ch \in Chats |-> NoEntry]
    /\ history = NoHistory
    /\ now = 0

FrameNext ==
    \/ \E c \in Clients : EngineUnregister(c)
    \/ EngineBroadcast
    \/ \E c \in Clients : \E w \in InFrames : FrameRead(c, w)
    \/ \E c \in Clients : ReaderJoin(c)
    \/ \E c \in Clients : ReaderLeave(c)
    \/ \E c \in Clients : ReaderList(c)
    \/ \E c \in Clients : ReaderSend(c)
    \/ \E c \in Clients : ReaderReply(c)
    \/ \E c \in Clients : ReaderSendOwn(c)
    \/ \E c \in Clients : ReadError(c)
    \/ \E c \in Clients : ReaderClose(c)
    \/ \E c \in Clients : WritePumpWrite(c)
    \/ \E c \in Clients : WritePumpUnblock(c)
    \/ \E c \in Clients : WritePumpClosed(c)
    \/ \E c \in Clients : WritePumpDone(c)

FrameSpec == FrameInit /\ [][FrameNext]_vars

\* A frame of the given type was dispatched on c.
Dispatched(c, type) == \E p \in seen : p[1] = c /\ p[2].json /\ p[2].type = type

\* The frames queued in the hub: those in h.broadcast, those in the send queues,
\* and those a reader or the roster broadcaster is about to send.
QueuedFrames ==
    {broadcast[i].msg : i \in DOMAIN broadcast}
      \cup UNION {{send[c][i].msg : i \in DOMAIN send[c]} : c \in Clients}
      \cup UNION {{rq[c][i].msg : i \in {j \in DOMAIN rq[c] : rq[c][j].op = "send"}} :
                    c \in Clients}
      \cup {tq[i].msg : i \in {j \in DOMAIN tq : tq[j].op = "send"}}

\* C22: no frame of type heartbeat is ever placed on h.broadcast or on a send
\* queue, or is about to be: a heartbeat frame only refreshes the presence
\* record of its sender.
NoHeartbeatQueued == \A m \in QueuedFrames : m.type # "heartbeat"

\* An identified connection sent a heartbeat frame and the frame was dispatched.
HeartbeatDispatched ==
    \E c \in Clients : userID[c] # "" /\ Dispatched(c, "heartbeat") /\ rq[c] = <<>>

\* The frame types the switch of the read loop has a case for.
KnownTypes ==
    {"user_join", "user_leave", "message", "status_request", "profile_update", "heartbeat"}

\* C23: a well-formed frame of an unrecognized type is on an outbound queue with
\* the type, the fields and the values the client wrote, the members outside the
\* known set included.
UnknownTypeVerbatim ==
    \A c \in Clients : \A i \in 1..Len(send[c]) :
        LET e == send[c][i]
        IN  (e.wire.json /\ e.wire.type \notin KnownTypes) =>
              /\ e.msg.type = e.wire.type
              /\ e.msg.userId = e.wire.userId
              /\ e.msg.text = e.wire.text
              /\ e.msg.sender = e.wire.sender
              /\ e.msg.status = e.wire.status
              /\ e.msg.extra = e.wire.extra

\* A step of the teardown of c: its reader leaves the loop, or run() takes it
\* from h.unregister.
TeardownStep == \E c \in Clients : ReadError(c) \/ EngineUnregister(c)

\* C24: a failing call of the presence store is never fatal.  A step of frame
\* handling, of a heartbeat or of a roster tick in which a store call fails
\* closes no connection, ends no reader and unregisters nobody; and a roster
\* tick whose GetAllUserStatuses fails sends nothing and leaves the broadcaster
\* ready for its next tick, with the registry, the store and every queue as
\* they were.
StoreFailureNotFatal ==
    [][/\ (storeFaults' > storeFaults /\ ~TeardownStep) =>
            /\ UNCHANGED <<clients, closed, sendClosed, connCloses, cancels, panicked>>
            /\ \A c \in Clients : rstate'[c] = rstate[c] /\ wstate'[c] = wstate[c]
       /\ (storeFaults' > storeFaults /\ PeriodicStatusBroadcast) =>
            /\ tq' = <<>>
            /\ UNCHANGED <<registryVars, store, broadcast, send, rq, accepted>>]_vars

\* A store call failed in a run without a teardown: every connection is still
\* registered and open.
StoreFailedAllOpen ==
    /\ storeFaults > 0
    /\ clients = Clients
    /\ \A c \in Clients : ~closed[c] /\ rstate[c] = "run" /\ wstate[c] = "run"

\* C25: the read deadline slides with every frame received: no connection is
\* closed for read timeout within pongWait of a frame it sent.
DeadlineSlidesWithFrames ==
    [][\A c \in Clients :
          ReadTimeout(c) => \A p \in seen : p[1] = c => now - p[3] > PongTicks]_vars

\* The reader of c is at a channel send that can never complete: a send on
\* h.broadcast, which is full, or on h.unregister, while run(), the only
\* receiver of both, is blocked for ever inside a case.
ReaderSendNeverCompletes(c) ==
    /\ EngineStuck
    /\ \/ AtOp(c, "send") /\ ~BroadcastHasRoom
       \/ SendsUnregister(c)

\* C26: a reader never blocks indefinitely in a channel send: no reader is at
\* a send on h.broadcast or on h.unregister that can never complete.
ReaderSendsComplete == \A c \in Clients : ~ReaderSendNeverCompletes(c)

\* A step of run(): it takes an event from h.register, h.unregister or
\* h.broadcast and handles it.
EngineStep ==
    \/ \E c \in Clients : EngineRegister(c) \/ EngineUnregister(c)
    \/ EngineBroadcast

\* C27: every step that changes clients or userIDs is a step of run(): no
\* reader, writer or heartbeat goroutine changes either mapping.
RegistryChangedByEngineOnly ==
    [][(clients' # clients \/ userIDs' # userIDs) => EngineStep]_vars

\* The reader of c is handling a user_join, the only frame of the run so far,
\* and is about to build the roster that follows the user_join broadcast.
JoinBuildsRoster(c) ==
    /\ events = 1
    /\ Dispatched(c, "user_join")
    /\ AtOp(c, "list")
    /\ Len(rq[c]) = 1

\* C28: the user_join of a connection is followed by a roster: the step in
\* which the reader builds the roster after the user_join broadcast leaves a
\* user_list frame to be sent on h.broadcast.
JoinFollowedByRoster ==
    [][\A c \in Clients :
          (JoinBuildsRoster(c) /\ rq'[c] # rq[c]) =>
             /\ rq'[c] # <<>>
             /\ Head(rq'[c]).op = "send"
             /\ Head(rq'[c]).msg.type = "user_list"]_vars

\* ------------------------------------------------------------------ the presence adapter
\* The variant that returns the value last written, expired or not.
GetUserStatusStale(st, u, ok) ==
    IF ~ok THEN [status |-> "offline", err |-> TRUE]
    ELSE IF st[u].v = "none" THEN [status |-> "offline", err |-> FALSE]
    ELSE [status |-> st[u].v, err |-> FALSE]

\* StatusService.GetUserStatus: GET of the key.  A key that was never set or
\* that expired is redis.Nil, answered "offline" without an error; any other
\* failure of the call is answered "offline" with the error.
GetUserStatus(st, u, ok) ==
    IF ~ok THEN [status |-> "offline", err |-> TRUE]
    ELSE IF st[u].exp > now THEN [status |-> st[u].v, err |-> FALSE]
    ELSE [status |-> "offline", err |-> FALSE]

hubVars ==
    <<registryVars, active, broadcast, enginePc, userID, send, sendClosed, closeVars,
      rstate, rq, wstate, hb, tq, accepted, events, faults, panicked, offlineSeen,
      left, peersAtClose, others, limiterVars, seen>>

\* A caller sets u online or offline.  The SET of the key is the one step of
\* the call that changes the store; concurrent calls take effect in the order
\* of their SETs.
StatusWrite(u, v) ==
    /\ \E ok \in BOOLEAN :
         /\ StoreCalls(<<TRUE>>, <<ok>>)
         /\ store' = IF v = "online" THEN SetUserOnline(store, u, ok)
                                     ELSE SetUserOffline(store, u, ok)
         /\ lastWrite' = IF ok THEN [lastWrite EXCEPT ![u] = [op |-> v, at |-> now]]
                               ELSE lastWrite
    /\ UNCHANGED <<hubVars, chatVars, messageVars, got, now>>

\* A caller asks for the status of u.
StatusGet(u) ==
    /\ \E ok \in BOOLEAN :
         /\ StoreCalls(<<TRUE>>, <<ok>>)
         /\ LET r == GetUserStatus(store, u, ok)
            IN  got' = [u |-> u, at |-> now, failed |-> ~ok,
                        status |-> r.status, err |-> r.err]
    /\ UNCHANGED <<hubVars, chatVars, messageVars, store, lastWrite, now>>

\* One tick passes.
StatusTick ==
    /\ now < Horizon
    /\ now' = now + 1
    /\ UNCHANGED <<hubVars, chatVars, messageVars, store, storeFaults, statusVars>>

StatusNext ==
    \/ \E u \in Users : \E v \in {"online", "offline"} : StatusWrite(u, v)
    \/ \E u \in Users : StatusGet(u)
    \/ StatusTick

\* The adapter of a hub that has no connection yet.
StatusSpec == Init /\ [][StatusNext]_vars

\* C29: GetUserStatus answers online exactly when the latest write of the
\* user's record was SetUserOnline and less than userStatusTTL has passed since
\* it; it answers offline after SetUserOffline, after the record expired and
\* for a user never written; and it reports an error only when the call to
\* the store failed, never for a missing record.  The latest write is the one
\* that counts, and it restarts the TTL.
StatusFollowsLatestWrite ==
    [][got' # got =>
         LET g == got'
             w == lastWrite[g.u]
         IN  /\ g.err <=> g.failed
             /\ g.status \in {"online", "offline"}
             /\ ~g.failed =>
                  (g.status = "online" <=> (w.op = "online" /\ g.at - w.at < TTLTicks))]_vars

\* GetUserStatus answered offline, without an error, for a user whose latest
\* write was SetUserOnline, userStatusTTL or more before.
ExpiredAnsweredOffline ==
    /\ got.u # ""
    /\ ~got.err
    /\ got.status = "offline"
    /\ lastWrite[got.u].op = "online"
    /\ got.at - lastWrite[got.u].at >= TTLTicks

\* ------------------------------------------------------------------ the chat service
\* repo.ListChats: the chats the user is a member of.  The query has no order,
\* so any of them can come first.
ListChats(u) == {ch \in Chats : chats[ch] # "" /\ u \in chatUsers[ch]}

\* The result of a call.
Called(op, ch, u, ok) == [op |-> op, chat |-> ch, user |-> u, ok |-> ok]

\* ChatService.CreateChat: a chat with a fresh id, its creator the first member.
CreateChat(ch, u) ==
    /\ chats[ch] = ""
    /\ chats' = [chats EXCEPT ![ch] = u]
    /\ chatUsers' = [chatUsers EXCEPT ![ch] = {u}]
    /\ chatResult' = Called("create", ch, u, TRUE)
    /\ UNCHANGED <<hubVars, store, storeFaults, statusVars, messageVars, now>>

\* ChatService.JoinChat: an error for a chat that does not exist, otherwise the
\* user is added.
JoinChat(ch, u) ==
    /\ IF chats[ch] = ""
       THEN chatResult' = Called("join", ch, u, FALSE) /\ UNCHANGED chatUsers
       ELSE /\ chatUsers' = [chatUsers EXCEPT ![ch] = @ \cup {u}]
            /\ chatResult' = Called("join", ch, u, TRUE)
    /\ UNCHANGED <<hubVars, chats, store, storeFaults, statusVars, messageVars, now>>

\* ChatService.LeaveChat: an error for a chat that does not exist and when the
\* chat is the first of the chats ListChats returns for the user ("chat creator
\* cannot leave the chat"); otherwise the user is removed.
LeaveChat(ch, u) ==
    /\ \E first \in ListChats(u) \cup {""} :
         /\ first = "" <=> ListChats(u) = {}
         /\ IF chats[ch] = "" \/ first = ch
            THEN chatResult' = Called("leave", ch, u, FALSE) /\ UNCHANGED chatUsers
            ELSE /\ chatUsers' = [chatUsers EXCEPT ![ch] = @ \ {u}]
                 /\ chatResult' = Called("leave", ch, u, TRUE)
    /\ UNCHANGED <<hubVars, chats, store, storeFaults, statusVars, messageVars, now>>

ChatNext ==
    \/ \E ch \in Chats : \E u \in Users : CreateChat(ch, u)
    \/ \E ch \in Chats : \E u \in Users : JoinChat(ch, u)
    \/ \E ch \in Chats : \E u \in Users : LeaveChat(ch, u)

\* The chat service of a server whose hub has no connection yet; the
\* repository answers every call.
ChatSpec == Init /\ [][ChatNext]_vars

\* C30: for a chat and a user who is not its creator, the user is a member
\* after a JoinChat that succeeds, and a LeaveChat of a member succeeds and
\* leaves the user no longer a member.
JoinThenLeave ==
    [][\A ch \in Chats : \A u \in Users :
          (chats[ch] # "" /\ chats[ch] # u) =>
             /\ (JoinChat(ch, u) /\ chatResult'.ok) => u \in chatUsers'[ch]
             /\ (LeaveChat(ch, u) /\ u \in chatUsers[ch]) =>
                    (chatResult'.ok /\ u \notin chatUsers'[ch])]_vars

\* C31: LeaveChat called by the creator of a chat returns an error and leaves
\* the membership of the chat unchanged, whatever other chats the creator
\* belongs to and in whatever order the repository lists them.
CreatorCannotLeave ==
    [][\A ch \in Chats : \A u \in Users :
          (chats[ch] = u /\ LeaveChat(ch, u)) =>
             (~chatResult'.ok /\ chatUsers' = chatUsers)]_vars

\* The reader of c has left its loop and is inside the deferred close sequence.
InCloseSequence(c) ==
    rstate[c] = "run" /\ rq[c] # <<>> /\ rq[c][Len(rq[c])].op = "close"

\* C32: the close sequence of an identified connection takes its steps in this
\* order: SetUserOffline, the user_leave frame accepted by h.broadcast (then the
\* roster), the connection handed to run() on h.unregister, and last c.close().
\* The reader leaves the loop with exactly these steps ahead of it, takes them
\* from the front, and each step is what it should be: the send puts the frame
\* at the end of h.broadcast, the unregister is taken by run() and closes
\* nothing, and the reader ends in the step that calls close().
CloseSequenceInOrder ==
    [][\A c \in Clients :
          userID[c] # "" =>
            /\ (rstate[c] = "run" /\ rq[c] = <<>> /\ rq'[c] # <<>>
                   /\ rq'[c][Len(rq'[c])].op = "close") =>
                 /\ [i \in DOMAIN rq'[c] |-> rq'[c][i].op] = <<"send", "list", "unreg", "close">>
                 /\ rq'[c][1].msg.type = "user_leave"
                 /\ rq'[c][1].msg.userId = userID[c]
                 /\ rq'[c][1].msg.status = "offline"
                 /\ storeFaults' = storeFaults => store'[userID[c]].v = "offline"
            /\ (InCloseSequence(c) /\ rq'[c] # rq[c]) =>
                 LET h == Head(rq[c])
                 IN  /\ h.op = "send" =>
                          /\ rq'[c] = Tail(rq[c])
                          /\ Len(broadcast') = Len(broadcast) + 1
                          /\ broadcast'[Len(broadcast')].msg = h.msg
                     /\ h.op = "list" =>
                          \/ rq'[c] = Tail(rq[c])
                          \/ /\ Tail(rq'[c]) = Tail(rq[c])
                             /\ Head(rq'[c]).op = "send"
                             /\ Head(rq'[c]).msg.type = "user_list"
                     /\ h.op = "unreg" =>
                          /\ rq'[c] = Tail(rq[c])
                          /\ enginePc = "idle"
                          /\ c \notin clients'
                          /\ closed'[c] = closed[c]
                     /\ h.op = "close" =>
                          /\ rq'[c] = <<>>
                          /\ closed'[c]
                          /\ rstate'[c] = "done"
            /\ (rstate[c] = "run" /\ rstate'[c] = "done") => AtOp(c, "close")]_vars

\* An identified connection has handed itself to run() and has only close()
\* left to call.
CloseSequenceAtClose ==
    \E c \in Clients :
        userID[c] # "" /\ InCloseSequence(c) /\ Head(rq[c]).op = "close" /\ c \notin clients

\* The close sequence of c has finished, c was identified, and no other
\* connection is bound to its user id.
ClosedSoleUser(c) ==
    /\ rstate[c] = "done"
    /\ userID[c] # ""
    /\ \A a \in Clients \ {c} : userID[a] # userID[c]

\* C33: once the close sequence of an identified connection has finished and no
\* other connection is bound to its user id, the store reports the user offline:
\* no heartbeat tick of the closed connection writes online after the last
\* offline write (in runs where the store answers every call).
OfflineAfterClose ==
    \A c \in Clients :
        (ClosedSoleUser(c) /\ storeFaults = 0) => store[userID[c]].v = "offline"

\* a and b identified with the same user id; b disconnected and was unregistered
\* while a is registered, open and in its read loop.
Survives(a, b) ==
    /\ a # b
    /\ userID[a] # ""
    /\ userID[a] = userID[b]
    /\ a \in clients /\ ~closed[a] /\ ~left[a] /\ ReaderInLoop(a)
    /\ b \notin clients /\ sendClosed[b]

\* C34: when two connections identified with the same user id and one of them
\* disconnects, userIDs still maps the id to the surviving connection and the
\* presence record of the user is not offline while the survivor is registered.
SurvivorStaysBound ==
    \A a, b \in Clients :
        Survives(a, b) =>
            /\ userIDs[userID[a]] = a
            /\ store[userID[a]].v # "offline"

\* C35: after an identified connection has sent user_leave, and until it sends
\* user_join again, the store reports its user offline: neither its heartbeat
\* goroutine nor its later frames write online (in runs where the store answers
\* every call and no other connection is bound to the user id).
LeftStaysOffline ==
    \A c \in Clients :
        (left[c] /\ rstate[c] = "run" /\ SoleBinding(c) /\ storeFaults = 0) =>
            store[userID[c]].v = "offline"

\* C36: no goroutine sends on c.send after run() has closed it.  No send on a
\* closed queue has happened (it would have panicked); a connection whose queue
\* is closed is out of clients, so the fan-out of run() does not reach it; and
\* its reader has no status_request reply left to send.
NoSendOnClosedQueue ==
    /\ ~panicked
    /\ \A c \in Clients :
         sendClosed[c] =>
            /\ c \notin clients
            /\ \A i \in 1..Len(rq[c]) : rq[c][i].op \notin {"reply", "own"}

\* run() closed the queue of a connection, its reader has ended, and frames
\* are still fanned out to another connection.
FanOutAfterQueueClosed ==
    \E c \in Clients :
        /\ sendClosed[c]
        /\ rstate[c] = "done"
        /\ \E a \in clients : send[a] # <<>>

\* C37: a connection acts only for the user id it is bound to.  A frame that
\* is fanned out for an identified connection names that id in sender (message,
\* profile_update, unrecognized types) and in userId (user_leave), and a frame
\* read on a connection changes no presence record but that of its own id,
\* whatever the client wrote in the frame.
IdentityIntegrity ==
    [][/\ \A c \in Clients : \A i \in 1..Len(send'[c]) :
            LET e == send'[c][i]
            IN  (e.wire.json /\ e.uid # "") =>
                  /\ e.wire.type \notin (KnownTypes \ {"message", "profile_update"}) =>
                         e.msg.sender = e.uid
                  /\ e.wire.type = "user_leave" => e.msg.userId = e.uid
       /\ \A c \in Clients : \A w \in InFrames :
            (userID[c] # "" /\ w.type # "user_join" /\ ReadFrame(c, w)) =>
               \A k \in UserKeys : store'[k] # store[k] => k = userID[c]]_vars

ReplyBuilt(c, q) ==
    /\ q # <<>>
    /\ Head(q).op = "own"
    /\ LET m == Head(q).msg
       IN  /\ m.type = "user_list"
           /\ m.users = knownUsers
           /\ \A k \in knownUsers :
                 /\ m.statuses[k] \in {"online", "offline"}
                 /\ userIDs[k] # NoClient => m.statuses[k] = "online"
                 /\ (userIDs[k] = NoClient /\ GetAllUserStatuses(store)[k] = "none")
                       => m.statuses[k] = "offline"

ReplyPlacedOnOwnQueue(c) ==
    ReaderSendOwn(c) =>
        /\ Len(send'[c]) = Len(send[c]) + 1
        /\ send'[c][Len(send'[c])].msg.type = "user_list"
        /\ \A d \in Clients \ {c} : send'[d] = send[d]

ChatMessageIDs(ch) == {m.id : m \in {x \in messages : x.chat = ch}}

\* The n newest of the ids S, newest first: ORDER BY created_at DESC LIMIT n.
\* (A message gets its id and its created_at in the same call, so the order of
\* the ids is the order of created_at.)
RECURSIVE Newest(_, _)
Newest(S, n) ==
    IF S = {} \/ n = 0
    THEN <<>>
    ELSE LET top == CHOOSE i \in S : \A j \in S : j <= i
         IN  <<top>> \o Newest(S \ {top}, n - 1)

\* MessageRepository.GetMessages.
GetMessages(ch, limit) == Newest(ChatMessageIDs(ch), limit)

\* The limits GetChatHistory is called with.
Limits == {1, MaxMessages}

\* MessageService.SendMessage with a text and ids that pass validation: the
\* message gets a fresh id, is saved, and is put in the cache under its own key
\* (a failure of the cache is ignored).  The history key of the chat is left as
\* it is.
SendMessage(ch, u) ==
    /\ saved < MaxMessages
    /\ saved' = saved + 1
    /\ messages' = messages \cup {[id |-> saved + 1, chat |-> ch, sender |-> u]}
    /\ \E ok \in BOOLEAN :
         messageKeys' = IF ok THEN messageKeys \cup {saved + 1} ELSE messageKeys
    /\ UNCHANGED <<hubVars, chatVars, store, storeFaults, statusVars, chatMessages,
                   history, now>>

\* MessageService.DeleteMessage by the sender of a message the repository holds
\* (any other call returns an error before it changes anything): the message is
\* deleted from the repository and its own key from the cache (a failure of the
\* cache is ignored).  The history key of the chat is left as it is.
DeleteMessage(id, u) ==
    /\ \E m \in messages :
         /\ m.id = id
         /\ m.sender = u
         /\ messages' = messages \ {m}
    /\ \E ok \in BOOLEAN :
         messageKeys' = IF ok THEN messageKeys \ {id} ELSE messageKeys
    /\ UNCHANGED <<hubVars, chatVars, store, storeFaults, statusVars, saved, chatMessages,
                   history, now>>

\* MessageService.GetChatHistory: the history key of the chat is returned when
\* the cache has it and answers (hit); otherwise the repository is asked and
\* its answer is stored under the key (a failure of the cache, ~ok, is
\* ignored).
GetChatHistory(ch, limit) ==
    \E hit, ok \in BOOLEAN :
        /\ hit => chatMessages[ch].present
        /\ IF hit
           THEN /\ history' = [chat |-> ch, limit |-> limit,
                               msgs |-> chatMessages[ch].msgs, cached |-> TRUE]
                /\ UNCHANGED chatMessages
           ELSE /\ history' = [chat |-> ch, limit |-> limit,
                               msgs |-> GetMessages(ch, limit), cached |-> FALSE]
                /\ chatMessages' =
                      IF ok
                      THEN [chatMessages EXCEPT
                              ![ch] = [present |-> TRUE, msgs |-> GetMessages(ch, limit)]]
                      ELSE chatMessages
        /\ UNCHANGED <<hubVars, chatVars, store, storeFaults, statusVars, messages, saved,
                       messageKeys, now>>

\* The history key of ch expires (SetChatMessages gives it one hour).
ExpireChatMessages(ch) ==
    /\ chatMessages[ch].present
    /\ chatMessages' = [chatMessages EXCEPT ![ch] = NoEntry]
    /\ UNCHANGED <<hubVars, chatVars, store, storeFaults, statusVars, messages, saved,
                   messageKeys, history, now>>

\* The key of message id expires (SetMessage gives it 24 hours).
ExpireMessage(id) ==
    /\ id \in messageKeys
    /\ messageKeys' = messageKeys \ {id}
    /\ UNCHANGED <<hubVars, chatVars, store, storeFaults, statusVars, messages, saved,
                   chatMessages, history, now>>

MessageNext ==
    \/ \E ch \in Chats : \E u \in Users : SendMessage(ch, u)
    \/ \E id \in MessageIDs : \E u \in Users : DeleteMessage(id, u)
    \/ \E ch \in Chats : \E limit \in Limits : GetChatHistory(ch, limit)
    \/ \E ch \in Chats : ExpireChatMessages(ch)
    \/ \E id \in MessageIDs : ExpireMessage(id)

\* The message service of a server whose hub has no connection yet; the
\* repository answers every call.
MessageSpec == Init /\ [][MessageNext]_vars

\* C40: whatever SendMessage, DeleteMessage and GetChatHistory calls came
\* before, GetChatHistory returns the messages the repository holds for the chat
\* at the time of the call: a history from the cache neither lacks a message
\* sent nor contains a message deleted after it was cached.
HistoryMatchesRepository ==
    [][\A ch \in Chats : \A limit \in Limits :
          GetChatHistory(ch, limit) => history'.msgs = GetMessages(ch, limit)]_vars

====
